---- MODULE Spec2Model ----
(***************************************************************************)
(* Model of app.py (CFO_Agent_Full_Repo): the Streamlit script that loads  *)
(* a table, coerces the amount column, computes KPIs and a per-period      *)
(* trend, and assembles the board-pack PDF.                                *)
(*                                                                         *)
(* Each browser session runs the script top to bottom in its own thread;   *)
(* the per-session state is a function over Sessions, the file system      *)
(* (board_pack.pdf, temporary chart images) is shared by all sessions.     *)
(*                                                                         *)
(* pandas semantics are those of the pandas line the script is written     *)
(* for (to_datetime(errors="ignore") returns its input unchanged when a    *)
(* value does not parse).  The external collaborators (document writer,    *)
(* chart renderer, file system) may raise at any call: at most one such    *)
(* fault is injected per report generation.                                *)
(***************************************************************************)
EXTENDS Integers, Sequences, FiniteSets, TLC

VARIABLES
    uploaded,    \* per session: the uploaded file (st.file_uploader)
    pc,          \* per session: position of the script run
    df,          \* per session: the DataFrame (rows of period/amount cells)
    vals,        \* per session: coerce_numeric(df[amount_col])
    errorMsg,    \* per session: what st.error / st.warning displayed
    kpi,         \* per session: total / avg / maxv
    trend,       \* per session: the trend Series, or None
    commentary,  \* per session: st.text_area value
    risks_df,    \* per session: st.data_editor value
    fault,       \* per session: the collaborator fault of this generation
    df2,         \* per session: build_board_pack's df2 with MoM_Change
    doc,         \* per session: the sections written to the BoardPDF
    tmpImages,   \* shared: temporary chart images present on disk
    boardPack,   \* shared: the file "board_pack.pdf" in the working directory
    download     \* per session: bytes handed to st.download_button

vars == <<uploaded, pc, df, vals, errorMsg, kpi, trend, commentary, risks_df,
          fault, df2, doc, tmpImages, boardPack, download>>

(***************************************************************************)
(* Bounds of the model and program constants                               *)
(***************************************************************************)
MaxRows == 2
MaxRisks == 2
TopN == 3
HeadRows == 20
MinColumns == 2

Sessions == {1, 2}

(***************************************************************************)
(* Cells                                                                   *)
(***************************************************************************)
\* A period cell: empty (NaN / NaT), a raw string, or a parsed date.  The id
\* of a string is its rank in string order; the id of a date is its rank in
\* chronological order.
EmptyPeriod == [kind |-> "empty", id |-> 0]

StrPeriod(k) == [kind |-> "str", id |-> k]

DatePeriod(d) == [kind |-> "date", id |-> d]

\* The strings of the model, in string order:
\*   1 = "02/2024", 2 = "11/2023", 3 = "Q1"
PeriodCells == {EmptyPeriod} \cup {StrPeriod(k) : k \in {1, 2, 3}}

\* An amount cell: empty, non-numeric text, or a number.
AmountCells ==
    {[kind |-> "empty", v |-> 0], [kind |-> "text", v |-> 0],
     [kind |-> "num", v |-> 10], [kind |-> "num", v |-> 20]}

RawRows == [period : PeriodCells, amount : AmountCells]

SeqsUpTo(S, n) == UNION {[1..m -> S] : m \in 0..n}

NoFile == [present |-> FALSE, cols |-> 0, rows |-> <<>>]

File(c, r) == [present |-> TRUE, cols |-> c, rows |-> r]

\* The missing marker of a numeric series, and a number of it.
NaN == [nan |-> TRUE, v |-> 0]

Num(n) == [nan |-> FALSE, v |-> n]

(***************************************************************************)
(* Strings (sequences of characters)                                       *)
(***************************************************************************)
IsSpace(c) == c = " "

RECURSIVE LStrip(_)
LStrip(s) == IF s = <<>> \/ ~IsSpace(Head(s)) THEN s ELSE LStrip(Tail(s))

RECURSIVE RStrip(_)
RStrip(s) ==
    IF s = <<>> \/ ~IsSpace(s[Len(s)]) THEN s
    ELSE RStrip(SubSeq(s, 1, Len(s) - 1))

\* str.strip()
Strip(s) == RStrip(LStrip(s))

(***************************************************************************)
(* Generic helpers                                                         *)
(***************************************************************************)
Min(a, b) == IF a <= b THEN a ELSE b

RECURSIVE SumSeq(_)
SumSeq(s) == IF s = <<>> THEN 0 ELSE Head(s) + SumSeq(Tail(s))

RECURSIVE MaxSeq(_)
MaxSeq(s) ==
    IF s = <<>> THEN 0
    ELSE IF Len(s) = 1 THEN Head(s)
    ELSE LET m == MaxSeq(Tail(s)) IN IF Head(s) >= m THEN Head(s) ELSE m

IndexPerms(n) ==
    {p \in [1..n -> 1..n] : \A i, j \in 1..n : i # j => p[i] # p[j]}

\* The index orders an unstable sort (numpy "quicksort") of keys may give:
\* the missing elements go last in their original order, the others are in
\* ascending key order, equal keys in any relative order.
ArgsortOutcomes(keys, isna) ==
    {q \in IndexPerms(Len(keys)) :
        \A i, j \in 1..Len(keys) : i < j =>
            \/ isna[q[j]] /\ ~isna[q[i]]
            \/ isna[q[j]] /\ isna[q[i]] /\ q[i] < q[j]
            \/ ~isna[q[i]] /\ ~isna[q[j]] /\ keys[q[i]] <= keys[q[j]]}

\* The index order a stable sort (numpy "mergesort") of keys gives.
StableArgsort(keys) ==
    CHOOSE q \in IndexPerms(Len(keys)) :
        \A i, j \in 1..Len(keys) : i < j =>
            /\ keys[q[i]] <= keys[q[j]]
            /\ (keys[q[j]] <= keys[q[i]] => q[i] < q[j])

\* s.take(q)
Take(s, q) == [i \in 1..Len(q) |-> s[q[i]]]

(***************************************************************************)
(* Loading and coercion (lines 20-76)                                      *)
(***************************************************************************)
\* df.dropna(how="all"): a row is dropped when every cell of it is empty.
DropAllEmpty(rows) ==
    SelectSeq(rows, LAMBDA r : ~(r.period.kind = "empty" /\ r.amount.kind = "empty"))

\* pd.to_numeric(x, errors="coerce") on one cell.
CoerceCell(c) == IF c.kind = "num" THEN Num(c.v) ELSE NaN

coerce_numeric(series) == [i \in 1..Len(series) |-> CoerceCell(series[i])]

AmountColumn(rows) == [i \in 1..Len(rows) |-> rows[i].amount]

\* The date a period string parses to, 0 when it does not parse:
\* "02/2024" is February 2024 (2), "11/2023" is November 2023 (1), "Q1" is
\* no date.
ParseDate(k) == CASE k = 1 -> 2 [] k = 2 -> 1 [] OTHER -> 0

Parses(c) ==
    \/ c.kind \in {"empty", "date"}
    \/ c.kind = "str" /\ ParseDate(c.id) # 0

ToDatetimeCell(c) ==
    IF c.kind = "str" THEN DatePeriod(ParseDate(c.id)) ELSE c

\* pd.to_datetime(df[period_col], errors="ignore"): the converted column when
\* every value parses, the column as it is otherwise.
ParsePeriodColumn(rows) ==
    IF \A i \in 1..Len(rows) : Parses(rows[i].period)
    THEN [i \in 1..Len(rows) |->
            [period |-> ToDatetimeCell(rows[i].period), amount |-> rows[i].amount]]
    ELSE rows

\* Faulty variant of AllMissing: an empty series is not taken as all missing.
AllMissingNonEmpty(v) == Len(v) > 0 /\ \A i \in 1..Len(v) : v[i].nan

\* vals.isna().all()
AllMissing(v) == \A i \in 1..Len(v) : v[i].nan

NonMissing(v) == SelectSeq(v, LAMBDA x : ~x.nan)

Values(v) == [i \in 1..Len(v) |-> v[i].v]

(***************************************************************************)
(* KPIs (lines 79-85)                                                      *)
(***************************************************************************)
NoKpi == [computed |-> FALSE, total |-> 0, avgNum |-> 0, avgDen |-> 1, maxv |-> 0]

\* vals.sum(), vals.mean(), vals.max(): missing values are skipped.  The
\* mean is kept as the fraction avgNum / avgDen.
ComputeKpi(v) ==
    LET nm == Values(NonMissing(v)) IN
    [computed |-> TRUE, total |-> SumSeq(nm), avgNum |-> SumSeq(nm),
     avgDen |-> Len(nm), maxv |-> MaxSeq(nm)]

(***************************************************************************)
(* Trend (lines 89-105)                                                    *)
(***************************************************************************)
NoTrend == [avail |-> FALSE, pts |-> <<>>]

\* The group keys of groupby(period_col): rows with an empty key are left
\* out (dropna=True).
GroupKeys(rows) ==
    {rows[i].period : i \in {j \in 1..Len(rows) : rows[j].period.kind # "empty"}}

RECURSIVE SortedKeys(_)
SortedKeys(S) ==
    IF S = {} THEN <<>>
    ELSE LET m == CHOOSE x \in S : \A y \in S : x.id <= y.id
         IN <<m>> \o SortedKeys(S \ {m})

\* The sum of one group: missing amounts are skipped, so a group with no
\* number at all sums to 0 (min_count=0).
GroupSum(rows, key) ==
    SumSeq(Values(NonMissing(coerce_numeric(AmountColumn(
        SelectSeq(rows, LAMBDA r : r.period = key))))))

\* The keys of rows in order of first appearance.
RECURSIVE EncounterKeys(_)
EncounterKeys(rows) ==
    IF rows = <<>> THEN <<>>
    ELSE LET rest == EncounterKeys(SubSeq(rows, 1, Len(rows) - 1))
             k == rows[Len(rows)].period
         IN IF k.kind = "empty" \/ \E i \in 1..Len(rest) : rest[i] = k
            THEN rest ELSE Append(rest, k)

\* Faulty variant of GroupBySum: groupby(sort=False), the groups in order
\* of first appearance.
GroupBySumUnsorted(rows) ==
    LET keys == EncounterKeys(rows) IN
    [i \in 1..Len(keys) |-> [key |-> keys[i], sum |-> GroupSum(rows, keys[i])]]

\* tmp.groupby(period_col)[amount_col].sum(): one point per key, in
\* ascending key order (sort=True).
GroupBySum(rows) ==
    LET keys == SortedKeys(GroupKeys(rows)) IN
    [i \in 1..Len(keys) |-> [key |-> keys[i], sum |-> GroupSum(rows, keys[i])]]

\* pd.to_datetime(trend.index): raises when a key does not parse.
ToDatetimeIndex(pts) ==
    IF \A i \in 1..Len(pts) : Parses(pts[i].key)
    THEN [ok |-> TRUE,
          pts |-> [i \in 1..Len(pts) |->
                    [key |-> ToDatetimeCell(pts[i].key), sum |-> pts[i].sum]]]
    ELSE [ok |-> FALSE, pts |-> pts]

\* trend.sort_index(): the keys of a groupby are distinct.
SortIndex(pts) == Take(pts, StableArgsort([i \in 1..Len(pts) |-> pts[i].key.id]))

TrendOf(rows) ==
    LET g == GroupBySum(rows)
        c == ToDatetimeIndex(g)
    IN IF c.ok THEN SortIndex(c.pts) ELSE g

(***************************************************************************)
(* Widgets (lines 107-131)                                                 *)
(***************************************************************************)
\* A cell of the risk editor: None (a row added in the editor) or a string.
NoneCell == [null |-> TRUE, text |-> <<>>]

Text(t) == [null |-> FALSE, text |-> t]

RiskRows ==
    {[Risk |-> r, Action |-> a, Owner |-> od[1], Due |-> od[2]] :
        r \in {NoneCell, Text(<<" ">>), Text(<<"r">>)},
        a \in {Text(<<>>), Text(<<"a">>)},
        od \in {<<Text(<<>>), Text(<<>>)>>, <<Text(<<"o">>), Text(<<>>)>>,
                <<Text(<<>>), Text(<<"d">>)>>}}

default_rows ==
    [i \in 1..2 |->
        [Risk |-> Text(<<>>), Action |-> Text(<<>>), Owner |-> Text(<<>>),
         Due |-> Text(<<>>)]]

CommentaryTexts == {<<>>, <<" ">>, <<"c">>}

(***************************************************************************)
(* build_board_pack (lines 157-274)                                        *)
(***************************************************************************)
\* The one call of a collaborator that raises during a report generation.
Faults ==
    {"none", "commentary", "variance_compute", "variance_write", "risks_write",
     "plot", "savefig", "embed", "remove", "appendix", "output"}

Section(k, b) == [kind |-> k, body |-> b]

CoverSection == <<Section("Cover", <<>>)>>

ExecSummarySection(k) ==
    <<Section("ExecutiveSummary",
        <<[total |-> k.total, avgNum |-> k.avgNum, avgDen |-> k.avgDen,
           maxv |-> k.maxv]>>)>>

\* if commentary.strip(): the heading and the text.
CommentarySection(c) ==
    IF Strip(c) # <<>> THEN <<Section("Commentary", <<[text |-> c]>>)>> ELSE <<>>

\* df2: the period and the coerced amount of the rows whose amount is
\* not missing.
Df2Rows(rows) ==
    LET c == [i \in 1..Len(rows) |->
                [period |-> rows[i].period, amt |-> CoerceCell(rows[i].amount)]]
        kept == SelectSeq(c, LAMBDA r : ~r.amt.nan)
    IN [i \in 1..Len(kept) |-> [period |-> kept[i].period, amount |-> kept[i].amt.v]]

\* df2.sort_values(by=period_col): the default sort is not stable, rows with
\* an empty period go last.
SortValuesOutcomes(d) ==
    {Take(d, q) : q \in ArgsortOutcomes([i \in 1..Len(d) |-> d[i].period.id],
                                        [i \in 1..Len(d) |-> d[i].period.kind = "empty"])}

\* df2["MoM_Change"] = df2[amount_col].diff(): row minus the row before it.
WithMoM(d) ==
    [i \in 1..Len(d) |->
        [period |-> d[i].period, amount |-> d[i].amount,
         mom |-> IF i = 1 THEN NaN ELSE Num(d[i].amount - d[i - 1].amount)]]

DropNaMoM(d) == SelectSeq(d, LAMBDA r : ~r.mom.nan)

\* DataFrame.nlargest / nsmallest(n, "MoM_Change"), keep="first"; sign is
\* -1 for nlargest (pandas negates the values) and 1 for nsmallest.  With
\* n >= len(d) pandas sorts the whole column (unstable sort, missing last);
\* otherwise it takes the first n of a stable sort of the non-missing values
\* and fills up with missing ones.
SelectN(n, d, sign) ==
    IF n >= Len(d)
    THEN {SubSeq(Take(d, q), 1, Min(n, Len(d))) :
            q \in ArgsortOutcomes([i \in 1..Len(d) |-> sign * d[i].mom.v],
                                  [i \in 1..Len(d) |-> d[i].mom.nan])}
    ELSE LET dropped == DropNaMoM(d)
             nans == SelectSeq(d, LAMBDA r : r.mom.nan)
             sorted == Take(dropped,
                            StableArgsort([i \in 1..Len(dropped) |-> sign * dropped[i].mom.v]))
             all == SubSeq(sorted, 1, Min(n, Len(dropped))) \o nans
         IN {SubSeq(all, 1, Min(n, Len(all)))}

\* df2.nlargest(3, "MoM_Change")[...].dropna()
UpsOutcomes(d) == {DropNaMoM(x) : x \in SelectN(TopN, d, -1)}

\* df2.nsmallest(3, "MoM_Change")[...].dropna()
DownsOutcomes(d) == {DropNaMoM(x) : x \in SelectN(TopN, d, 1)}

Entries(list, sel) ==
    [i \in 1..Len(sel) |->
        [list |-> list, period |-> sel[i].period, delta |-> sel[i].mom.v]]

\* The variance block: the heading and the two lists, or, when anything in
\* the try block raises, what was written so far and the placeholder line.
VarianceSection(f, ups, downs) ==
    CASE f = "variance_compute" -> <<Section("VarianceUnavailable", <<>>)>>
      [] f = "variance_write" ->
            <<Section("VarianceHighlights", <<>>), Section("VarianceUnavailable", <<>>)>>
      [] OTHER ->
            <<Section("VarianceHighlights",
                Entries("increase", ups) \o Entries("decrease", downs))>>

\* risks_df.fillna("").astype(str) on one cell.
FillnaStr(c) == IF c.null THEN <<>> ELSE c.text

CleanRisks(log) ==
    [i \in 1..Len(log) |->
        [Risk |-> FillnaStr(log[i].Risk), Action |-> FillnaStr(log[i].Action),
         Owner |-> FillnaStr(log[i].Owner), Due |-> FillnaStr(log[i].Due)]]

\* Faulty variant of NonEmptyRisks: the cells are compared without strip().
NonEmptyRisksNoStrip(clean) ==
    SelectSeq(clean, LAMBDA r : r.Risk # <<>> \/ r.Action # <<>>)

\* clean[(clean["Risk"].str.strip() != "") | (clean["Action"].str.strip() != "")]
NonEmptyRisks(clean) ==
    SelectSeq(clean, LAMBDA r : Strip(r.Risk) # <<>> \/ Strip(r.Action) # <<>>)

RiskLines(r) ==
    [Risk |-> r.Risk, Action |-> r.Action, Owner |-> r.Owner, Due |-> r.Due,
     ownerLine |-> (r.Owner # <<>> \/ r.Due # <<>>)]

\* The risks block: nothing when no row is kept; when a write raises, the
\* except clause passes, leaving what was written so far.
RisksSection(f, log) ==
    LET nonempty == NonEmptyRisks(CleanRisks(log)) IN
    IF nonempty = <<>> THEN <<>>
    ELSE IF f = "risks_write" THEN <<Section("RisksAndActions", <<>>)>>
    ELSE <<Section("RisksAndActions",
            [i \in 1..Len(nonempty) |-> RiskLines(nonempty[i])])>>

\* save_trend_image is called, and gets past its first return, when the
\* trend is there and not empty.
ChartWanted(t) == t.avail /\ t.pts # <<>>

\* The chart page: written once the image file exists.
ChartSection(t) ==
    IF ChartWanted(t) THEN <<Section("TrendChart", t.pts)>> ELSE <<>>

\* The appendix: df.head(20).
AppendixSection(rows) ==
    <<Section("Appendix", SubSeq(rows, 1, Min(HeadRows, Len(rows))))>>

\* Faulty variant of AssembleSections: the chart page is written before the
\* risks.
AssembleChartBeforeRisks(cover, exec, comm, variance, risks, chart, appendix) ==
    cover \o exec \o comm \o variance \o chart \o risks \o appendix

\* The order in which build_board_pack writes its blocks.
AssembleSections(cover, exec, comm, variance, risks, chart, appendix) ==
    cover \o exec \o comm \o variance \o risks \o chart \o appendix

\* Whether fault f can happen with these inputs: a write fails only where
\* something is written, the chart calls fail only when a chart is made.
FaultApplies(f, c, log, t, ups, downs) ==
    CASE f = "commentary" -> Strip(c) # <<>>
      [] f = "variance_write" -> ups # <<>> \/ downs # <<>>
      [] f = "risks_write" -> NonEmptyRisks(CleanRisks(log)) # <<>>
      [] f \in {"plot", "savefig", "embed", "remove"} -> ChartWanted(t)
      [] OTHER -> TRUE

\* Faults outside a try block leave build_board_pack as an exception.
Raises(f) == f \in {"commentary", "plot", "savefig", "embed", "appendix"}

\* The temporary image stays on disk when the generation raises between
\* NamedTemporaryFile and os.remove, or when os.remove itself raises.
TmpLeft(f) == f \in {"savefig", "embed", "remove"}

\* Lines 168-270: the sections written, whether an exception left the
\* function, and whether the temporary image is still on disk.
build_board_pack(rows, k, t, c, log, f, ups, downs) ==
    [raised |-> Raises(f),
     tmpLeft |-> TmpLeft(f),
     sections |-> AssembleSections(CoverSection, ExecSummarySection(k),
                    CommentarySection(c), VarianceSection(f, ups, downs),
                    RisksSection(f, log), ChartSection(t), AppendixSection(rows))]

(***************************************************************************)
(* The script run of one session                                           *)
(***************************************************************************)
NoError == [kind |-> "none", column |-> ""]

NoDoc == [built |-> FALSE, sections |-> <<>>]

NoDownload == [offered |-> FALSE, content |-> <<>>]

NoBoardPack == [exists |-> FALSE, content |-> <<>>]

\* Lines 37-48 and 295-296: load the file, drop the empty rows, require two
\* columns.
RunScript(s) ==
    /\ pc[s] = "start"
    /\ IF ~uploaded[s].present
       THEN /\ pc' = [pc EXCEPT ![s] = "info"]
            /\ UNCHANGED <<df, errorMsg>>
       ELSE /\ df' = [df EXCEPT ![s] = DropAllEmpty(uploaded[s].rows)]
            /\ IF uploaded[s].cols < MinColumns
               THEN /\ errorMsg' = [errorMsg EXCEPT ![s] =
                                      [kind |-> "TooFewColumns", column |-> ""]]
                    /\ pc' = [pc EXCEPT ![s] = "stopped"]
               ELSE /\ pc' = [pc EXCEPT ![s] = "parse"]
                    /\ UNCHANGED errorMsg
    /\ UNCHANGED <<uploaded, vals, kpi, trend, commentary, risks_df, fault, df2,
                   doc, tmpImages, boardPack, download>>

\* Lines 64-71: parse the period column as dates when it is one.
ParsePeriod(s) ==
    /\ pc[s] = "parse"
    /\ df' = [df EXCEPT ![s] = ParsePeriodColumn(df[s])]
    /\ pc' = [pc EXCEPT ![s] = "coerce"]
    /\ UNCHANGED <<uploaded, vals, errorMsg, kpi, trend, commentary, risks_df,
                   fault, df2, doc, tmpImages, boardPack, download>>

\* Lines 73-76: coerce the amount column; st.error and st.stop when no value
\* of it is a number.
CoerceAmount(s) ==
    /\ pc[s] = "coerce"
    /\ LET v == coerce_numeric(AmountColumn(df[s])) IN
        /\ vals' = [vals EXCEPT ![s] = v]
        /\ IF AllMissing(v)
           THEN /\ errorMsg' = [errorMsg EXCEPT ![s] =
                                  [kind |-> "AmountNotNumeric", column |-> "amount"]]
                /\ pc' = [pc EXCEPT ![s] = "stopped"]
           ELSE /\ pc' = [pc EXCEPT ![s] = "kpi"]
                /\ UNCHANGED errorMsg
    /\ UNCHANGED <<uploaded, df, kpi, trend, commentary, risks_df, fault, df2,
                   doc, tmpImages, boardPack, download>>

\* Lines 79-85.
ComputeKPIs(s) ==
    /\ pc[s] = "kpi"
    /\ kpi' = [kpi EXCEPT ![s] = ComputeKpi(vals[s])]
    /\ pc' = [pc EXCEPT ![s] = "trend"]
    /\ UNCHANGED <<uploaded, df, vals, errorMsg, trend, commentary, risks_df,
                   fault, df2, doc, tmpImages, boardPack, download>>

\* Lines 89-105: the trend; when st.line_chart raises, a warning and
\* trend = None.
AggregateTrend(s) ==
    /\ pc[s] = "trend"
    /\ \E chartOk \in BOOLEAN :
        IF chartOk
        THEN /\ trend' = [trend EXCEPT ![s] = [avail |-> TRUE, pts |-> TrendOf(df[s])]]
             /\ UNCHANGED errorMsg
        ELSE /\ trend' = [trend EXCEPT ![s] = NoTrend]
             /\ errorMsg' = [errorMsg EXCEPT ![s] =
                               [kind |-> "CouldNotPlotTrend", column |-> ""]]
    /\ pc' = [pc EXCEPT ![s] = "ready"]
    /\ UNCHANGED <<uploaded, df, vals, kpi, commentary, risks_df, fault, df2,
                   doc, tmpImages, boardPack, download>>

PdfError == [kind |-> "CouldNotCreatePdf", column |-> ""]

\* Lines 277-289 and 168-270: the button is pressed and build_board_pack
\* writes the sections into the BoardPDF object.
CreateBoardPack(s) ==
    /\ pc[s] = "ready"
    /\ \E f \in Faults, sorted \in SortValuesOutcomes(Df2Rows(df[s])) :
        LET d == WithMoM(sorted) IN
        \E ups \in UpsOutcomes(d), downs \in DownsOutcomes(d) :
            /\ FaultApplies(f, commentary[s], risks_df[s], trend[s], ups, downs)
            /\ LET r == build_board_pack(df[s], kpi[s], trend[s], commentary[s],
                                         risks_df[s], f, ups, downs)
               IN /\ doc' = [doc EXCEPT ![s] =
                               IF r.raised THEN NoDoc
                               ELSE [built |-> TRUE, sections |-> r.sections]]
                  /\ tmpImages' = IF r.tmpLeft THEN tmpImages \cup {s} ELSE tmpImages
                  /\ pc' = [pc EXCEPT ![s] = IF r.raised THEN "failed" ELSE "assembled"]
                  /\ errorMsg' = [errorMsg EXCEPT ![s] =
                                    IF r.raised THEN PdfError ELSE @]
            /\ fault' = [fault EXCEPT ![s] = f]
            /\ df2' = [df2 EXCEPT ![s] = IF f = "variance_compute" THEN <<>> ELSE d]
    /\ UNCHANGED <<uploaded, df, vals, kpi, trend, commentary, risks_df,
                   boardPack, download>>

\* Lines 272-274: pdf.output("board_pack.pdf").
OutputPdf(s) ==
    /\ pc[s] = "assembled"
    /\ IF fault[s] = "output"
       THEN /\ pc' = [pc EXCEPT ![s] = "failed"]
            /\ errorMsg' = [errorMsg EXCEPT ![s] = PdfError]
            /\ UNCHANGED boardPack
       ELSE /\ boardPack' = [exists |-> TRUE, content |-> doc[s].sections]
            /\ pc' = [pc EXCEPT ![s] = "written"]
            /\ UNCHANGED errorMsg
    /\ UNCHANGED <<uploaded, df, vals, kpi, trend, commentary, risks_df, fault,
                   df2, doc, tmpImages, download>>

\* Lines 290-291: open the path build_board_pack returned and offer its
\* content for download.
OpenDownload(s) ==
    /\ pc[s] = "written"
    /\ download' = [download EXCEPT ![s] =
                      [offered |-> TRUE, content |-> boardPack.content]]
    /\ pc' = [pc EXCEPT ![s] = "done"]
    /\ UNCHANGED <<uploaded, df, vals, errorMsg, kpi, trend, commentary,
                   risks_df, fault, df2, doc, tmpImages, boardPack>>

Next ==
    \E s \in Sessions :
        \/ RunScript(s)
        \/ ParsePeriod(s)
        \/ CoerceAmount(s)
        \/ ComputeKPIs(s)
        \/ AggregateTrend(s)
        \/ CreateBoardPack(s)
        \/ OutputPdf(s)
        \/ OpenDownload(s)

(***************************************************************************)
(* Initial states                                                          *)
(***************************************************************************)
Files(n) == {File(2, r) : r \in SeqsUpTo(RawRows, n)} \cup {File(1, <<>>)}

InitRest ==
    /\ pc = [s \in Sessions |-> "start"]
    /\ df = [s \in Sessions |-> <<>>]
    /\ vals = [s \in Sessions |-> <<>>]
    /\ errorMsg = [s \in Sessions |-> NoError]
    /\ kpi = [s \in Sessions |-> NoKpi]
    /\ trend = [s \in Sessions |-> NoTrend]
    /\ fault = [s \in Sessions |-> "none"]
    /\ df2 = [s \in Sessions |-> <<>>]
    /\ doc = [s \in Sessions |-> NoDoc]
    /\ tmpImages = {}
    /\ boardPack = NoBoardPack
    /\ download = [s \in Sessions |-> NoDownload]

\* One session with any file of up to MaxRows rows, the widgets left at
\* their defaults; the other session has uploaded nothing.
Init ==
    /\ \E f \in Files(MaxRows) : uploaded = [s \in Sessions |-> IF s = 1 THEN f ELSE NoFile]
    /\ commentary = [s \in Sessions |-> <<>>]
    /\ risks_df = [s \in Sessions |-> default_rows]
    /\ InitRest

Spec == Init /\ [][Next]_vars

\* One session with a file of numbers, any commentary and a risk log of up
\* to one row or the editor's default rows.
ReportRows ==
    [period : {EmptyPeriod, StrPeriod(1), StrPeriod(3)},
     amount : {[kind |-> "num", v |-> 10]}]

InitReport ==
    /\ \E r \in SeqsUpTo(ReportRows, MaxRows) :
        uploaded = [s \in Sessions |-> IF s = 1 THEN File(2, r) ELSE NoFile]
    /\ \E c \in CommentaryTexts :
        commentary = [s \in Sessions |-> IF s = 1 THEN c ELSE <<>>]
    /\ \E log \in SeqsUpTo(RiskRows, 1) \cup {default_rows} :
        risks_df = [s \in Sessions |-> IF s = 1 THEN log ELSE default_rows]
    /\ InitRest

SpecReport == InitReport /\ [][Next]_vars

\* One session with a one-row file and any risk log of up to MaxRisks rows.
OneRowFile(n) ==
    File(2, <<[period |-> StrPeriod(1), amount |-> [kind |-> "num", v |-> n]]>>)

InitRisks ==
    /\ uploaded = [s \in Sessions |-> IF s = 1 THEN OneRowFile(10) ELSE NoFile]
    /\ commentary = [s \in Sessions |-> <<>>]
    /\ \E log \in SeqsUpTo(RiskRows, MaxRisks) :
        risks_df = [s \in Sessions |-> IF s = 1 THEN log ELSE default_rows]
    /\ InitRest

SpecRisks == InitRisks /\ [][Next]_vars

\* Two sessions of the same server process, each with a file of its own.
InitConc ==
    /\ uploaded \in [Sessions -> {OneRowFile(10), OneRowFile(20)}]
    /\ commentary = [s \in Sessions |-> <<>>]
    /\ risks_df = [s \in Sessions |-> default_rows]
    /\ InitRest

SpecConc == InitConc /\ [][Next]_vars

(***************************************************************************)
(* Properties                                                              *)
(***************************************************************************)
Ran(s) == pc[s] \in {"assembled", "written", "done", "failed"}

Ended(s) == pc[s] \in {"done", "failed"}

Kinds(d) == [i \in 1..Len(d.sections) |-> d.sections[i].kind]

HasKind(d, k) == \E i \in 1..Len(d.sections) : d.sections[i].kind = k

\* The body of the section of kind k, <<>> when there is none.
BodyOf(d, k) ==
    LET S == SelectSeq(d.sections, LAMBDA x : x.kind = k)
    IN IF S = <<>> THEN <<>> ELSE S[1].body

NoNumber(rows) == \A i \in 1..Len(rows) : rows[i].amount.kind # "num"

\* C1: when no value of the amount column is a number (zero rows included),
\* the run stops at the all-missing check with an error naming the amount
\* column; no KPI, no trend, no document and no download exist in that run.
C1_AllMissingStopsPipeline ==
    \A s \in Sessions :
        (uploaded[s].present /\ uploaded[s].cols >= MinColumns
            /\ NoNumber(uploaded[s].rows)) =>
            /\ pc[s] \in {"start", "parse", "coerce", "stopped"}
            /\ pc[s] = "stopped" =>
                errorMsg[s] = [kind |-> "AmountNotNumeric", column |-> "amount"]
            /\ kpi[s] = NoKpi
            /\ trend[s] = NoTrend
            /\ doc[s] = NoDoc
            /\ ~download[s].offered

C1_Witness ==
    \E s \in Sessions :
        /\ pc[s] = "stopped"
        /\ errorMsg[s].kind = "AmountNotNumeric"
        /\ Len(df[s]) > 0
        /\ NoNumber(uploaded[s].rows)

\* C2: a failure in the variance, the risks or the chart section never
\* aborts the document: a placeholder stands for the section, the appendix
\* is built and the document is written.
C2_OptionalFailureNeverAborts ==
    \A s \in Sessions :
        Ended(s) =>
            /\ fault[s] \in {"variance_compute", "variance_write"} =>
                /\ pc[s] = "done"
                /\ HasKind(doc[s], "VarianceUnavailable")
                /\ HasKind(doc[s], "Appendix")
            /\ fault[s] = "risks_write" =>
                /\ pc[s] = "done"
                /\ HasKind(doc[s], "RisksUnavailable")
                /\ HasKind(doc[s], "Appendix")
            /\ fault[s] \in {"plot", "savefig", "embed"} =>
                /\ pc[s] = "done"
                /\ HasKind(doc[s], "TrendChartUnavailable")
                /\ HasKind(doc[s], "Appendix")

\* Every row of the file has a period and a number.
CleanTable(s) ==
    \A i \in 1..Len(uploaded[s].rows) :
        /\ uploaded[s].rows[i].period.kind # "empty"
        /\ uploaded[s].rows[i].amount.kind = "num"

VarianceBuilt(s) ==
    /\ doc[s].built
    /\ trend[s].avail
    /\ CleanTable(s)
    /\ fault[s] \notin {"variance_compute", "variance_write"}

\* C3: every variance entry of the document is (period, delta) with delta
\* the aggregated amount of that period minus that of the period before it
\* in the trend; the first period of the trend has no entry.  Stated for
\* files in which every row has a period and a number, so that neither an
\* empty period nor a missing amount is what decides it.
C3_VarianceIsDeltaOfPeriodSums ==
    \A s \in Sessions :
        VarianceBuilt(s) =>
            LET E == BodyOf(doc[s], "VarianceHighlights")
                T == trend[s].pts
            IN \A e \in 1..Len(E) :
                \E i \in 2..Len(T) :
                    /\ T[i].key = E[e].period
                    /\ E[e].delta = T[i].sum - T[i - 1].sum

\* C4: the trend has exactly one entry per period that has a row with a
\* number, its value the sum of the numbers of that period; a period whose
\* amounts are all missing is not in the trend.
C4_TrendIsSumOfNonMissing ==
    \A s \in Sessions :
        trend[s].avail =>
            LET T == trend[s].pts
                numbered == SelectSeq(df[s], LAMBDA r :
                                r.amount.kind = "num" /\ r.period.kind # "empty")
                K == {numbered[i].period : i \in 1..Len(numbered)}
            IN /\ {T[i].key : i \in 1..Len(T)} = K
               /\ Len(T) = Cardinality(K)
               /\ \A i \in 1..Len(T) :
                    T[i].sum = SumSeq([j \in 1..Len(numbered) |->
                                IF numbered[j].period = T[i].key
                                THEN numbered[j].amount.v ELSE 0])

AllKeysParse(s) ==
    \A i \in 1..Len(uploaded[s].rows) :
        LET c == uploaded[s].rows[i].period
        IN c.kind = "empty" \/ ParseDate(c.id) # 0

Chronological(T) ==
    /\ \A i \in 1..Len(T) : T[i].key.kind = "date"
    /\ \A i, j \in 1..Len(T) : i < j => T[i].key.id <= T[j].key.id

\* C5 as stated: date keys in chronological order when the keys parse as
\* dates, otherwise the raw keys in ascending order of aggregated value.
\* Stated for files in which every row has a period and a number.
C5_TrendOrderByValueFallback ==
    \A s \in Sessions :
        (trend[s].avail /\ CleanTable(s)) =>
            LET T == trend[s].pts IN
            IF AllKeysParse(s) THEN Chronological(T)
            ELSE /\ \A i \in 1..Len(T) : T[i].key.kind = "str"
                 /\ \A i, j \in 1..Len(T) : i < j => T[i].sum <= T[j].sum

\* C5 as amended: date keys in chronological order when every non-empty
\* period value parses as a date, otherwise the raw keys in ascending order
\* of the key itself.
C5_TrendOrderByKeyFallback ==
    \A s \in Sessions :
        trend[s].avail =>
            LET T == trend[s].pts IN
            IF AllKeysParse(s) THEN Chronological(T)
            ELSE /\ \A i \in 1..Len(T) : T[i].key.kind = "str"
                 /\ \A i, j \in 1..Len(T) : i < j => T[i].key.id < T[j].key.id

C5_Witness ==
    \E s \in Sessions :
        /\ trend[s].avail
        /\ ~AllKeysParse(s)
        /\ CleanTable(s)
        /\ Len(trend[s].pts) >= 2
        /\ trend[s].pts[1].sum > trend[s].pts[2].sum

Rank(k) ==
    CASE k = "Cover" -> 1
      [] k = "ExecutiveSummary" -> 2
      [] k = "Commentary" -> 3
      [] k = "VarianceHighlights" -> 4
      [] k = "VarianceUnavailable" -> 5
      [] k = "RisksAndActions" -> 6
      [] k = "TrendChart" -> 7
      [] k = "Appendix" -> 8
      [] OTHER -> 0

AllRiskRowsEmpty(log) ==
    \A i \in 1..Len(log) :
        /\ FillnaStr(log[i].Risk) = <<>>
        /\ FillnaStr(log[i].Action) = <<>>
        /\ FillnaStr(log[i].Owner) = <<>>
        /\ FillnaStr(log[i].Due) = <<>>

\* C6: every document build_board_pack produces starts with Cover and
\* ExecutiveSummary and has its sections in the order Cover,
\* ExecutiveSummary, Commentary, VarianceHighlights (or its placeholder),
\* RisksAndActions, TrendChart, Appendix; with an empty commentary, an empty
\* risk log and no trend it is exactly Cover, ExecutiveSummary,
\* VarianceHighlights or its placeholder, Appendix.
C6_SectionOrderFixed ==
    \A s \in Sessions :
        doc[s].built =>
            LET K == Kinds(doc[s]) IN
            /\ Len(K) >= 2
            /\ K[1] = "Cover"
            /\ K[2] = "ExecutiveSummary"
            /\ \A i \in 1..Len(K) : Rank(K[i]) # 0
            /\ \A i, j \in 1..Len(K) : i < j => Rank(K[i]) < Rank(K[j])
            /\ (commentary[s] = <<>> /\ AllRiskRowsEmpty(risks_df[s]) /\ ~trend[s].avail) =>
                K \in {<<"Cover", "ExecutiveSummary", "VarianceHighlights", "Appendix">>,
                       <<"Cover", "ExecutiveSummary", "VarianceUnavailable", "Appendix">>,
                       <<"Cover", "ExecutiveSummary", "VarianceHighlights",
                         "VarianceUnavailable", "Appendix">>}

C6_Witness ==
    \E s \in Sessions :
        /\ pc[s] = "done"
        /\ Kinds(doc[s]) = <<"Cover", "ExecutiveSummary", "Commentary",
                             "VarianceHighlights", "RisksAndActions", "TrendChart",
                             "Appendix">>

\* C7: a trend of N points gives N-1 deltas; the increases are in descending
\* order of delta, the decreases in ascending order, and each list has at
\* most 3 and at most N-1 entries.  Stated for files in which every row has
\* a period and a number.
C7_VarianceListsBoundedByTrend ==
    \A s \in Sessions :
        VarianceBuilt(s) =>
            LET E == BodyOf(doc[s], "VarianceHighlights")
                ups == SelectSeq(E, LAMBDA e : e.list = "increase")
                downs == SelectSeq(E, LAMBDA e : e.list = "decrease")
                N == Len(trend[s].pts)
                D == IF N = 0 THEN 0 ELSE N - 1
            IN /\ Len(DropNaMoM(df2[s])) = D
               /\ \A i, j \in 1..Len(ups) : i < j => ups[i].delta >= ups[j].delta
               /\ \A i, j \in 1..Len(downs) : i < j => downs[i].delta <= downs[j].delta
               /\ Len(ups) <= TopN /\ Len(ups) <= D
               /\ Len(downs) <= TopN /\ Len(downs) <= D

Fields(r) == [Risk |-> r.Risk, Action |-> r.Action, Owner |-> r.Owner, Due |-> r.Due]

WrittenRisks(s) ==
    LET B == BodyOf(doc[s], "RisksAndActions")
    IN [i \in 1..Len(B) |-> Fields(B[i])]

RisksBuilt(s) == doc[s].built /\ fault[s] # "risks_write"

Blank(t) == \A i \in 1..Len(t) : t[i] = " "

C9_TempImageDeleted ==
    \A s \in Sessions : Ended(s) => s \notin tmpImages

\* C10: the document a session offers for download is the document built
\* from that session's own inputs.
C10_DownloadIsOwnDocument ==
    \A s \in Sessions :
        download[s].offered => download[s].content = doc[s].sections

====
